---- MODULE Spec2Model ----
(***************************************************************************)
(* Model of the buyer tokenomics calculator (BuyerCalculator.tsx and its   *)
(* chart variant).  The component holds userInputs and errors; every       *)
(* event handler is followed by a render in which the memoised `results`   *)
(* are recomputed from the current userInputs and the fixed systemParams.  *)
(*                                                                         *)
(* JavaScript numbers are floating-point values.  They are modelled as     *)
(* decimal floating-point numbers [m, e] (value m * 10^e) with an eight    *)
(* digit mantissa, every operation rounded to nearest, so that rounding,   *)
(* absorption and the order of operations are part of the model.           *)
(***************************************************************************)
EXTENDS Integers, Sequences, FiniteSets, TLC

----------------------------------------------------------------------------
(* Floating-point numbers: m = 0 and e = 0, or MantLo <= |m| < MantHi.      *)

MantHi == 10^8
MantLo == 10^7
Limb == 10^4

Abs(x) == IF x < 0 THEN -x ELSE x

Sgn(x) == IF x < 0 THEN -1 ELSE IF x = 0 THEN 0 ELSE 1

Zero == [m |-> 0, e |-> 0]

\* NaN: the value of 0 / 0 and of a failed parse; every comparison with it is false
NaN == [m |-> 0, e |-> 1]

\* isNaN(a)
IsNaN(a) == a = NaN

\* a \div d rounded to nearest (ties away from zero), a >= 0, d > 0
RoundDiv(a, d) == (a + (d \div 2)) \div d

\* the number of decimal digits of a, 0 < a < MantLo
NumDigits(a) ==
    IF a >= 10^6 THEN 7 ELSE IF a >= 10^5 THEN 6 ELSE IF a >= 10^4 THEN 5
    ELSE IF a >= 10^3 THEN 4 ELSE IF a >= 10^2 THEN 3 ELSE IF a >= 10 THEN 2
    ELSE 1

\* the floating-point number nearest to m * 10^e, |m| < 2^31
Norm(m, e) ==
    LET a == Abs(m)
        q == RoundDiv(a, 10)
        k == 8 - NumDigits(a)
    IN  IF a = 0 THEN Zero
        ELSE IF a >= 10 * MantHi
        THEN [m |-> Sgn(m) * RoundDiv(a, 100), e |-> e + 2]
        ELSE IF a >= MantHi
        THEN (IF q = MantHi THEN [m |-> Sgn(m) * MantLo, e |-> e + 2]
                            ELSE [m |-> Sgn(m) * q, e |-> e + 1])
        ELSE IF a >= MantLo THEN [m |-> m, e |-> e]
        ELSE [m |-> m * 10^k, e |-> e - k]

\* the number literal m * 10^e
Dec(m, e) == Norm(m, e)

FromInt(n) == Norm(n, 0)

One == FromInt(1)

Neg(a) == [m |-> -a.m, e |-> a.e]

\* a < b
Lt(a, b) ==
    IF IsNaN(a) \/ IsNaN(b) THEN FALSE
    ELSE IF Sgn(a.m) # Sgn(b.m) THEN Sgn(a.m) < Sgn(b.m)
    ELSE IF a.m = 0 THEN FALSE
    ELSE IF a.e # b.e THEN (IF a.m > 0 THEN a.e < b.e ELSE a.e > b.e)
    ELSE a.m < b.m

Le(a, b) == (a = b /\ ~IsNaN(a)) \/ Lt(a, b)

\* Math.max(a, b)
MathMax(a, b) == IF Lt(a, b) THEN b ELSE a

\* Math.min(a, b)
MathMin(a, b) == IF Lt(b, a) THEN b ELSE a

\* |m| * 10^(-d) rounded to nearest, d >= 0
ShiftRight(m, d) ==
    IF d = 0 THEN m
    ELSE IF d > 9 THEN 0
    ELSE Sgn(m) * RoundDiv(Abs(m), 10^d)

\* a + b: both operands aligned one digit below the larger exponent
Add(a, b) ==
    IF a.m = 0 THEN b
    ELSE IF b.m = 0 THEN a
    ELSE LET hi == IF a.e >= b.e THEN a ELSE b
             lo == IF a.e >= b.e THEN b ELSE a
             d  == hi.e - lo.e
         IN  IF d = 0 THEN Norm(hi.m + lo.m, hi.e)
             ELSE Norm(hi.m * 10 + ShiftRight(lo.m, d - 1), hi.e - 1)

Sub(a, b) == Add(a, Neg(b))

\* a * b: the exact 16 digit product of the mantissas, rounded once
Mul(a, b) ==
    IF a.m = 0 \/ b.m = 0 THEN Zero
    ELSE LET x  == Abs(a.m)
             y  == Abs(b.m)
             x1 == x \div Limb
             x0 == x % Limb
             y1 == y \div Limb
             y0 == y % Limb
             ll == x0 * y0
             t  == x1 * y0 + x0 * y1 + (ll \div Limb)
             hi == x1 * y1 + (t \div Limb)
             lo == (t % Limb) * Limb + (ll % Limb)
             s  == Sgn(a.m) * Sgn(b.m)
         IN  IF hi >= MantLo
             THEN Norm(s * (hi + (IF 2 * lo >= MantHi THEN 1 ELSE 0)), a.e + b.e + 8)
             ELSE Norm(s * (hi * 10 + (lo \div MantLo)
                            + (IF 2 * (lo % MantLo) >= MantLo THEN 1 ELSE 0)),
                       a.e + b.e + 7)

\* one step of long division by y: the next quotient digit of p = <<q, r>>
DivStep(p, y) == <<p[1] * 10 + ((p[2] * 10) \div y), (p[2] * 10) % y>>

\* n more quotient digits of r / y, appended to q: <<quotient, remainder>>
LongDiv(q, r, y, n) ==
    LET ld[i \in 0..n] == IF i = 0 THEN <<q, r>> ELSE DivStep(ld[i - 1], y)
    IN  ld[n]

\* a / b: long division of the mantissas, rounded once; 0 / 0 is NaN
Div(a, b) ==
    IF a.m = 0 THEN (IF b.m = 0 THEN NaN ELSE Zero)
    ELSE LET x  == Abs(a.m)
             y  == Abs(b.m)
             s  == Sgn(a.m) * Sgn(b.m)
             qr == IF x >= y THEN LongDiv(x \div y, x % y, y, 7)
                             ELSE LongDiv(0, x, y, 8)
             k  == IF x >= y THEN 7 ELSE 8
         IN  Norm(s * (qr[1] + (IF 2 * qr[2] >= y THEN 1 ELSE 0)), a.e - b.e - k)

\* the integer part of a: the fraction is discarded, towards zero
MathTrunc(a) ==
    IF a.e >= 0 THEN a
    ELSE IF a.e < -8 THEN Zero
    ELSE Norm(Sgn(a.m) * (Abs(a.m) \div (10^(-a.e))), 0)

\* Math.floor(a)
MathFloor(a) ==
    IF a.e >= 0 THEN a
    ELSE IF a.e < -8 THEN (IF a.m < 0 THEN FromInt(-1) ELSE Zero)
    ELSE Norm(a.m \div (10^(-a.e)), 0)

\* the number of terms of the exponential series
ExpTerms == 10

\* the number of times the argument of the exponential can be halved
ExpHalvings == 12

\* 1 + (y/1) * (1 + (y/2) * (1 + ...)): the series of e^y, 0 <= y <= 1/2
ExpSeries(y) ==
    LET h[k \in 1..(ExpTerms + 1)] ==
            IF k > ExpTerms THEN One
            ELSE Add(One, Mul(Div(y, FromInt(k)), h[k + 1]))
    IN  h[1]

\* x * x
Square(x) == Mul(x, x)

\* e^y for y >= 0: the argument is halved down to 1/2, the result squared back
ExpPos(y) ==
    LET arg[j \in 0..ExpHalvings] ==
            IF j = 0 THEN y ELSE Mul(arg[j - 1], Dec(5, -1))
        ex[j \in 0..ExpHalvings] ==
            IF j = ExpHalvings \/ ~Lt(Dec(5, -1), arg[j])
            THEN ExpSeries(arg[j])
            ELSE Square(ex[j + 1])
    IN  ex[0]

\* Math.exp(x); a result below the smallest double is 0
MathExp(x) ==
    IF x.m >= 0 THEN ExpPos(x)
    ELSE IF Lt(x, FromInt(-745)) THEN Zero
    ELSE Div(One, ExpPos(Neg(x)))

----------------------------------------------------------------------------
(* Constants of the component                                              *)

ASSUMED_USERS == FromInt(100)

ASSUMED_BURN_RATE == Dec(3, -1)

INITIAL_GLOBAL_MINTED == FromInt(10000)

DEFAULT_SYSTEM_PARAMS ==
    [CB_base       |-> Dec(5, -2),
     alpha         |-> Dec(1, -2),
     beta          |-> Dec(3, -1),
     gamma         |-> Dec(5, -1),
     P0            |-> FromInt(1),
     k             |-> Dec(1, -4),
     discount_base |-> Dec(1, -1),
     theta         |-> Dec(6, -3),
     burn_cap      |-> FromInt(1000000),
     access_fee    |-> FromInt(10),
     user_cap      |-> FromInt(10000),
     t_launch      |-> Zero]

----------------------------------------------------------------------------
(* The formulas                                                            *)

\* a cashback that grows after the launch: CB_base * (1 + alpha * (t - t_launch))
calculateCashbackPercentGrowing(t, params) ==
    MathMax(Zero, Mul(params.CB_base,
                      Add(One, Mul(params.alpha, Sub(t, params.t_launch)))))

\* a cashback without the clamp: CB_base * (1 - alpha * (t - t_launch))
calculateCashbackPercentUnclamped(t, params) ==
    Mul(params.CB_base, Sub(One, Mul(params.alpha, Sub(t, params.t_launch))))

\* CB%(t) = max(0, CB_base * (1 - alpha * (t - t_launch)))
calculateCashbackPercent(t, params) ==
    MathMax(Zero, Mul(params.CB_base,
                      Sub(One, Mul(params.alpha, Sub(t, params.t_launch)))))

\* a quality factor that takes the review bonus off: 1 - beta * (1 - r) * q
calculateQualityFactorPenalty(returnProbability, reviewQuality, params) ==
    Sub(One, Mul(Mul(params.beta, Sub(One, returnProbability)), reviewQuality))

\* a quality factor that rewards returns: 1 + beta * r * q
calculateQualityFactorReturns(returnProbability, reviewQuality, params) ==
    Add(One, Mul(Mul(params.beta, returnProbability), reviewQuality))

\* QF = 1 + beta * (1 - returnProbability) * reviewQuality
calculateQualityFactor(returnProbability, reviewQuality, params) ==
    Add(One, Mul(Mul(params.beta, Sub(One, returnProbability)), reviewQuality))

\* a diminishing factor without the minus sign: exp(gamma * (totalMintedUser / user_cap))
calculateDiminishingFactorGrowing(totalMintedUser, params) ==
    MathExp(Mul(params.gamma, Div(totalMintedUser, params.user_cap)))

\* a diminishing factor that stays 1 up to the cap:
\* exp(-gamma * max(0, totalMintedUser / user_cap - 1))
calculateDiminishingFactorAboveCap(totalMintedUser, params) ==
    MathExp(Mul(Neg(params.gamma),
                MathMax(Zero, Sub(Div(totalMintedUser, params.user_cap), One))))

\* DF = exp(-gamma * (totalMintedUser / user_cap))
calculateDiminishingFactor(totalMintedUser, params) ==
    MathExp(Mul(Neg(params.gamma), Div(totalMintedUser, params.user_cap)))

\* a price that falls with the supply: P0 * (1 - k * totalMinted ** 2)
calculateTokenPriceFalling(totalMinted, params) ==
    Mul(params.P0, Sub(One, Mul(params.k, Mul(totalMinted, totalMinted))))

\* a price divided by the growth term: P0 / (1 + k * totalMinted ** 2)
calculateTokenPriceInverse(totalMinted, params) ==
    Div(params.P0, Add(One, Mul(params.k, Mul(totalMinted, totalMinted))))

\* Ptoken = P0 * (1 + k * totalMinted ** 2)
calculateTokenPrice(totalMinted, params) ==
    Mul(params.P0, Add(One, Mul(params.k, Mul(totalMinted, totalMinted))))

\* discount% = max(0, discount_base * (1 - theta * (burnedYear / burn_cap)))
calculateDiscountPercent(burnedYear, params) ==
    MathMax(Zero, Mul(params.discount_base,
                      Sub(One, Mul(params.theta, Div(burnedYear, params.burn_cap)))))

----------------------------------------------------------------------------
\* the largest number of loop iterations in the model
LoopLimit == 7

(* The mint accumulator.  The loop state is the pair of accumulators; the  *)
(* values of the loop's locals in each iteration are kept in `purchases`.  *)

\* the element of a singleton set: Val({ e : x \in {d} }) is e with x standing for
\* the value of d, as in `const x = d; ... e`
Val(S) == CHOOSE v \in S : TRUE

\* a loop body that leaves the global accumulator where it was, so that every
\* purchase is priced at the supply before the loop
MintPurchaseStalePrice(inputs, params, t, acc) ==
    Val({ Val({
        [currentGlobalTotalMinted |-> acc.currentGlobalTotalMinted,
         totalMintedUser |-> Add(acc.totalMintedUser, mintedForPurchase),
         purchases |-> Append(acc.purchases,
             [CB_percent |-> CB_percent, QFi |-> QFi, DF |-> DF,
              Ptoken |-> Ptoken, mintedForPurchase |-> mintedForPurchase])]
        : mintedForPurchase \in
            {Div(Mul(Mul(Mul(inputs.purchasePrice, CB_percent), QFi), DF), Ptoken)} })
      : CB_percent \in {calculateCashbackPercent(t, params)},
        QFi \in {calculateQualityFactor(inputs.returnProbability,
                                        inputs.reviewQuality, params)},
        DF \in {calculateDiminishingFactor(acc.totalMintedUser, params)},
        Ptoken \in {calculateTokenPrice(acc.currentGlobalTotalMinted, params)} })

\* the body of the mint loop: one purchase, from the accumulators in acc
MintPurchase(inputs, params, t, acc) ==
    Val({ Val({
        [currentGlobalTotalMinted |->
             Add(acc.currentGlobalTotalMinted, mintedForPurchase),
         totalMintedUser |-> Add(acc.totalMintedUser, mintedForPurchase),
         purchases |-> Append(acc.purchases,
             [CB_percent |-> CB_percent, QFi |-> QFi, DF |-> DF,
              Ptoken |-> Ptoken, mintedForPurchase |-> mintedForPurchase])]
        : mintedForPurchase \in
            {Div(Mul(Mul(Mul(inputs.purchasePrice, CB_percent), QFi), DF), Ptoken)} })
      : CB_percent \in {calculateCashbackPercent(t, params)},
        QFi \in {calculateQualityFactor(inputs.returnProbability,
                                        inputs.reviewQuality, params)},
        DF \in {calculateDiminishingFactor(acc.totalMintedUser, params)},
        Ptoken \in {calculateTokenPrice(acc.currentGlobalTotalMinted, params)} })

\* for (let i = 0; i < inputs.numberOfPurchases; i++) { ... }: loop[i] is the
\* state after the iterations below i; LoopLimit bounds the number of iterations
MintLoop(inputs, params, t, init) ==
    LET loop[i \in 0..LoopLimit] ==
            IF i = 0 THEN init
            ELSE IF Lt(FromInt(i - 1), inputs.numberOfPurchases)
            THEN Val({MintPurchase(inputs, params, t, acc) : acc \in {loop[i - 1]}})
            ELSE loop[i - 1]
    IN  loop[LoopLimit]

\* a mint run that reports as dfLast the factor its last purchase used
calculateMintedTokensLastUsed(inputs, params, globalTotalMinted) ==
    Val({ Val({
        [totalMintedUser |-> end.totalMintedUser,
         newGlobalTotalMinted |-> end.currentGlobalTotalMinted,
         dfFirst |-> dfFirst,
         dfLast |-> IF Len(end.purchases) = 0 THEN dfFirst
                    ELSE end.purchases[Len(end.purchases)].DF,
         mintedPerPurchaseAvg |-> Div(end.totalMintedUser, inputs.numberOfPurchases),
         t |-> t,
         purchases |-> end.purchases]
        : end \in {MintLoop(inputs, params, t,
                            [currentGlobalTotalMinted |-> globalTotalMinted,
                             totalMintedUser |-> Zero,
                             purchases |-> << >>])} })
      : t \in {MathFloor(inputs.period)},
        dfFirst \in {calculateDiminishingFactor(Zero, params)} })

calculateMintedTokens(inputs, params, globalTotalMinted) ==
    Val({ Val({
        [totalMintedUser |-> end.totalMintedUser,
         newGlobalTotalMinted |-> end.currentGlobalTotalMinted,
         dfFirst |-> dfFirst,
         dfLast |-> calculateDiminishingFactor(end.totalMintedUser, params),
         mintedPerPurchaseAvg |-> Div(end.totalMintedUser, inputs.numberOfPurchases),
         t |-> t,
         purchases |-> end.purchases]
        : end \in {MintLoop(inputs, params, t,
                            [currentGlobalTotalMinted |-> globalTotalMinted,
                             totalMintedUser |-> Zero,
                             purchases |-> << >>])} })
      : t \in {MathFloor(inputs.period)},
        dfFirst \in {calculateDiminishingFactor(Zero, params)} })

----------------------------------------------------------------------------
(* The burn accumulator                                                    *)

\* a loop body that raises the price by the tokens burned so far
BurnPurchaseRepriced(inputs, discount_percent, tokenPrice, acc) ==
    Val({ Val({
        [totalBurned |-> Add(acc.totalBurned, burnedForPurchase),
         purchases |-> Append(acc.purchases,
             [discountInRubles |-> discountInRubles,
              tokenPrice |-> price,
              burnedForPurchase |-> burnedForPurchase])]
        : burnedForPurchase \in {Div(discountInRubles, price)} })
      : discountInRubles \in {Mul(inputs.purchasePrice, discount_percent)},
        price \in {Add(tokenPrice, acc.totalBurned)} })

\* a loop body that burns at least one token for a purchase
BurnPurchaseMinimum(inputs, discount_percent, tokenPrice, acc) ==
    Val({ Val({
        [totalBurned |-> Add(acc.totalBurned, burnedForPurchase),
         purchases |-> Append(acc.purchases,
             [discountInRubles |-> discountInRubles,
              tokenPrice |-> tokenPrice,
              burnedForPurchase |-> burnedForPurchase])]
        : burnedForPurchase \in {MathMax(One, Div(discountInRubles, tokenPrice))} })
      : discountInRubles \in {Mul(inputs.purchasePrice, discount_percent)} })

\* the body of the burn loop: one purchase, added to acc.totalBurned
BurnPurchase(inputs, discount_percent, tokenPrice, acc) ==
    Val({ Val({
        [totalBurned |-> Add(acc.totalBurned, burnedForPurchase),
         purchases |-> Append(acc.purchases,
             [discountInRubles |-> discountInRubles,
              tokenPrice |-> tokenPrice,
              burnedForPurchase |-> burnedForPurchase])]
        : burnedForPurchase \in {Div(discountInRubles, tokenPrice)} })
      : discountInRubles \in {Mul(inputs.purchasePrice, discount_percent)} })

\* a loop that runs while i <= inputs.numberOfPurchases
BurnLoopInclusive(inputs, discount_percent, tokenPrice, init) ==
    LET loop[i \in 0..LoopLimit] ==
            IF i = 0 THEN init
            ELSE IF Le(FromInt(i - 1), inputs.numberOfPurchases)
            THEN Val({BurnPurchase(inputs, discount_percent, tokenPrice, acc) :
                          acc \in {loop[i - 1]}})
            ELSE loop[i - 1]
    IN  loop[LoopLimit]

\* for (let i = 0; i < inputs.numberOfPurchases; i++) { ... }
BurnLoop(inputs, discount_percent, tokenPrice, init) ==
    LET loop[i \in 0..LoopLimit] ==
            IF i = 0 THEN init
            ELSE IF Lt(FromInt(i - 1), inputs.numberOfPurchases)
            THEN Val({BurnPurchase(inputs, discount_percent, tokenPrice, acc) :
                          acc \in {loop[i - 1]}})
            ELSE loop[i - 1]
    IN  loop[LoopLimit]

\* calculateBurnedTokens with the values of its locals
BurnRun(inputs, params, burnedYear, tokenPrice) ==
    Val({ Val({
        [returned |-> Add(end.totalBurned, params.access_fee),
         discount_percent |-> discount_percent,
         burnedYear |-> burnedYear,
         tokenPrice |-> tokenPrice,
         purchases |-> end.purchases]
        : end \in {BurnLoop(inputs, discount_percent, tokenPrice,
                            [totalBurned |-> Zero, purchases |-> << >>])} })
      : discount_percent \in {calculateDiscountPercent(burnedYear, params)} })

calculateBurnedTokens(inputs, params, burnedYear, tokenPrice) ==
    BurnRun(inputs, params, burnedYear, tokenPrice).returned

----------------------------------------------------------------------------
(* Result composition: the callback of `results = useMemo(...)`.  The      *)
(* record holds the returned results and the callback's locals.            *)

\* a global supply that counts the mint of one user only
newGlobalTotalMintedOneUser(initialGlobalTotalMinted, totalMintedUser) ==
    Add(initialGlobalTotalMinted, totalMintedUser)

\* newGlobalTotalMinted = initialGlobalTotalMinted + (totalMintedUser * ASSUMED_USERS)
newGlobalTotalMinted(initialGlobalTotalMinted, totalMintedUser) ==
    Add(initialGlobalTotalMinted, Mul(totalMintedUser, ASSUMED_USERS))

\* assumedMarketBurnedYearTokens = totalMintedUser * ASSUMED_BURN_RATE * ASSUMED_USERS
assumedMarketBurnedYearTokens(totalMintedUser) ==
    Mul(Mul(totalMintedUser, ASSUMED_BURN_RATE), ASSUMED_USERS)

\* a split that destroys one half
burnDestroyedHalf(totalBurned) == Mul(totalBurned, Dec(5, -1))

\* burnDestroyed = totalBurned * 0.7
burnDestroyed(totalBurned) == Mul(totalBurned, Dec(7, -1))

\* burnRedistributed = totalBurned * 0.3
burnRedistributed(totalBurned) == Mul(totalBurned, Dec(3, -1))

\* a balance clamped at zero
netTokensClamped(totalMintedUser, totalBurned) ==
    MathMax(Zero, Sub(totalMintedUser, totalBurned))

\* netTokens: totalMintedUser - totalBurned
netTokens(totalMintedUser, totalBurned) == Sub(totalMintedUser, totalBurned)

ResultsRun(inputs, params) ==
    Val({ Val({ Val({ Val({
        [results |->
            [totalMintedUser |-> mintResult.totalMintedUser,
             tokenPrice |-> tokenPrice,
             totalBurned |-> burn.returned,
             burnDestroyed |-> burnDestroyed(burn.returned),
             burnRedistributed |-> burnRedistributed(burn.returned),
             netTokens |-> netTokens(mintResult.totalMintedUser, burn.returned),
             breakdown |->
                [t |-> t,
                 CB_percent |-> calculateCashbackPercent(t, params),
                 QF |-> calculateQualityFactor(inputs.returnProbability,
                                               inputs.reviewQuality, params),
                 dfFirst |-> mintResult.dfFirst,
                 dfLast |-> mintResult.dfLast,
                 mintedPerPurchaseAvg |-> mintResult.mintedPerPurchaseAvg,
                 capUsage |-> Div(mintResult.totalMintedUser, params.user_cap),
                 discount_percent |-> discount_percent,
                 discountRubTotal |-> discountRubTotal,
                 burnDiscountTokens |-> Div(discountRubTotal, tokenPrice),
                 accessFeeTokens |-> params.access_fee,
                 netValueRub |->
                     Mul(Sub(mintResult.totalMintedUser, burn.returned), tokenPrice),
                 effectiveCashbackRub |-> Mul(mintResult.totalMintedUser, tokenPrice),
                 effectiveDiscountRub |-> Mul(burn.returned, tokenPrice),
                 initialGlobalTotalMinted |-> INITIAL_GLOBAL_MINTED,
                 assumedUsers |-> ASSUMED_USERS,
                 assumedBurnRate |-> ASSUMED_BURN_RATE,
                 newGlobalTotalMinted |-> newGlobal]],
         mintResult |-> mintResult,
         burn |-> burn]
        : burn \in {BurnRun(inputs, params, marketBurned, tokenPrice)},
          discountRubTotal \in
              {Mul(Mul(inputs.purchasePrice, inputs.numberOfPurchases),
                   discount_percent)} })
      : tokenPrice \in {calculateTokenPrice(newGlobal, params)},
        discount_percent \in {calculateDiscountPercent(marketBurned, params)} })
      : newGlobal \in {newGlobalTotalMinted(INITIAL_GLOBAL_MINTED,
                                            mintResult.totalMintedUser)},
        marketBurned \in
            {assumedMarketBurnedYearTokens(mintResult.totalMintedUser)} })
      : t \in {MathFloor(inputs.period)},
        mintResult \in {calculateMintedTokens(inputs, params,
                                              INITIAL_GLOBAL_MINTED)} })

----------------------------------------------------------------------------
(* The chart variant of the component.  Its handlers, its formulas and its *)
(* calculateBurnedTokens are the same text as the component's; its         *)
(* calculateMintedTokens and its results callback keep no diagnostics, and *)
(* it draws an emission chart from the same inputs.                        *)

\* the largest period index of a chart in the model
ChartLimit == 12

\* a loop body that adds the mint of all assumed users to the global supply
MintPurchaseOfVariantAllUsers(inputs, params, t, acc) ==
    Val({ Val({
        [currentGlobalTotalMinted |->
             Add(acc.currentGlobalTotalMinted, Mul(mintedForPurchase, ASSUMED_USERS)),
         totalMintedUser |-> Add(acc.totalMintedUser, mintedForPurchase)]
        : mintedForPurchase \in
            {Div(Mul(Mul(Mul(inputs.purchasePrice, CB_percent), QFi), DF), Ptoken)} })
      : CB_percent \in {calculateCashbackPercent(t, params)},
        QFi \in {calculateQualityFactor(inputs.returnProbability,
                                        inputs.reviewQuality, params)},
        DF \in {calculateDiminishingFactor(acc.totalMintedUser, params)},
        Ptoken \in {calculateTokenPrice(acc.currentGlobalTotalMinted, params)} })

\* the body of the variant's mint loop
MintPurchaseOfVariant(inputs, params, t, acc) ==
    Val({ Val({
        [currentGlobalTotalMinted |->
             Add(acc.currentGlobalTotalMinted, mintedForPurchase),
         totalMintedUser |-> Add(acc.totalMintedUser, mintedForPurchase)]
        : mintedForPurchase \in
            {Div(Mul(Mul(Mul(inputs.purchasePrice, CB_percent), QFi), DF), Ptoken)} })
      : CB_percent \in {calculateCashbackPercent(t, params)},
        QFi \in {calculateQualityFactor(inputs.returnProbability,
                                        inputs.reviewQuality, params)},
        DF \in {calculateDiminishingFactor(acc.totalMintedUser, params)},
        Ptoken \in {calculateTokenPrice(acc.currentGlobalTotalMinted, params)} })

\* the variant's calculateMintedTokens
calculateMintedTokensOfVariant(inputs, params, globalTotalMinted) ==
    LET t == MathFloor(inputs.period)
        loop[i \in 0..LoopLimit] ==
            IF i = 0
            THEN [currentGlobalTotalMinted |-> globalTotalMinted,
                  totalMintedUser |-> Zero]
            ELSE IF Lt(FromInt(i - 1), inputs.numberOfPurchases)
            THEN Val({MintPurchaseOfVariant(inputs, params, t, acc) :
                          acc \in {loop[i - 1]}})
            ELSE loop[i - 1]
    IN  Val({ [totalMintedUser |-> end.totalMintedUser,
               newGlobalTotalMinted |-> end.currentGlobalTotalMinted]
              : end \in {loop[LoopLimit]} })

\* the callback of the variant's `results = useMemo(...)`
resultsOfVariant(inputs, params) ==
    Val({ Val({ Val({
        [totalMintedUser |-> totalMintedUser,
         tokenPrice |-> tokenPrice,
         totalBurned |-> totalBurned,
         burnDestroyed |-> Mul(totalBurned, Dec(7, -1)),
         burnRedistributed |-> Mul(totalBurned, Dec(3, -1)),
         netTokens |-> Sub(totalMintedUser, totalBurned)]
        : totalBurned \in
            {calculateBurnedTokens(inputs, params,
                 Mul(Mul(totalMintedUser, ASSUMED_BURN_RATE), ASSUMED_USERS),
                 tokenPrice)} })
      : tokenPrice \in
            {calculateTokenPrice(
                 Add(INITIAL_GLOBAL_MINTED, Mul(totalMintedUser, ASSUMED_USERS)),
                 params)} })
      : totalMintedUser \in
            {calculateMintedTokensOfVariant(inputs, params,
                                            INITIAL_GLOBAL_MINTED).totalMintedUser} })

\* a chart purchase that adds its own mint only to the global supply
EmissionPurchaseOneUser(inputs, params, t, acc) ==
    Val({ Val({
        [cumulativeMinted |-> Add(acc.cumulativeMinted, mintedForPurchase),
         globalTotalMinted |-> Add(acc.globalTotalMinted, mintedForPurchase)]
        : mintedForPurchase \in
            {Div(Mul(Mul(Mul(inputs.purchasePrice, CB_percent), QFi), DF), Ptoken)} })
      : CB_percent \in {calculateCashbackPercent(t, params)},
        QFi \in {calculateQualityFactor(inputs.returnProbability,
                                        inputs.reviewQuality, params)},
        DF \in {calculateDiminishingFactor(acc.cumulativeMinted, params)},
        Ptoken \in {calculateTokenPrice(acc.globalTotalMinted, params)} })

\* the body of the chart's purchase loop: globalTotalMinted grows by
\* mintedForPurchase * ASSUMED_USERS with every purchase
EmissionPurchase(inputs, params, t, acc) ==
    Val({ Val({
        [cumulativeMinted |-> Add(acc.cumulativeMinted, mintedForPurchase),
         globalTotalMinted |->
             Add(acc.globalTotalMinted, Mul(mintedForPurchase, ASSUMED_USERS))]
        : mintedForPurchase \in
            {Div(Mul(Mul(Mul(inputs.purchasePrice, CB_percent), QFi), DF), Ptoken)} })
      : CB_percent \in {calculateCashbackPercent(t, params)},
        QFi \in {calculateQualityFactor(inputs.returnProbability,
                                        inputs.reviewQuality, params)},
        DF \in {calculateDiminishingFactor(acc.cumulativeMinted, params)},
        Ptoken \in {calculateTokenPrice(acc.globalTotalMinted, params)} })

\* for (let i = 0; i < userInputs.numberOfPurchases; i++) { ... } at period t
EmissionPurchases(inputs, params, t, init) ==
    LET loop[i \in 0..LoopLimit] ==
            IF i = 0 THEN init
            ELSE IF Lt(FromInt(i - 1), inputs.numberOfPurchases)
            THEN Val({EmissionPurchase(inputs, params, t, acc) :
                          acc \in {loop[i - 1]}})
            ELSE loop[i - 1]
    IN  loop[LoopLimit]

\* emissionChartData: the points pushed by for (let t = 0; t <= maxPeriod; t++);
\* after[t] holds the accumulators after the iteration for period t - 1
emissionChartData(inputs, params) ==
    LET maxPeriod == MathMax(inputs.period, FromInt(10))
        userPeriod == MathFloor(inputs.period)
        after[t \in 0..(ChartLimit + 1)] ==
            IF t = 0
            THEN [cumulativeMinted |-> Zero,
                  globalTotalMinted |-> INITIAL_GLOBAL_MINTED]
            ELSE IF FromInt(t - 1) = userPeriod /\ Le(FromInt(t - 1), maxPeriod)
            THEN Val({EmissionPurchases(inputs, params, FromInt(t - 1), acc) :
                          acc \in {after[t - 1]}})
            ELSE after[t - 1]
        last == CHOOSE n \in 0..ChartLimit :
                    /\ Le(FromInt(n), maxPeriod)
                    /\ n = ChartLimit \/ ~Le(FromInt(n + 1), maxPeriod)
    IN  [i \in 1..(last + 1) |->
            [period |-> FromInt(i - 1),
             minted |-> after[i].cumulativeMinted,
             price |-> calculateTokenPrice(after[i].globalTotalMinted, params)]]

----------------------------------------------------------------------------
(* Text of an input element: a sequence of characters.  parseFloat and     *)
(* parseInt read the longest numeric prefix.                               *)

DigitChars == <<"0", "1", "2", "3", "4", "5", "6", "7", "8", "9">>

IsDigit(c) == \E d \in 1..10 : DigitChars[d] = c

DigitVal(c) == (CHOOSE d \in 1..10 : DigitChars[d] = c) - 1

\* the first position from i on that holds no digit
DigitsEnd(str, i) ==
    CHOOSE j \in i..(Len(str) + 1) :
        /\ \A n \in i..(j - 1) : IsDigit(str[n])
        /\ j = Len(str) + 1 \/ ~IsDigit(str[j])

\* the value of the digits str[i..j-1]
DigitsValue(str, i, j) ==
    LET v[n \in (i - 1)..(j - 1)] ==
            IF n = i - 1 THEN 0 ELSE v[n - 1] * 10 + DigitVal(str[n])
    IN  v[j - 1]

HasSign(str) == Len(str) >= 1 /\ str[1] \in {"-", "+"}

SignOf(str) == IF Len(str) >= 1 /\ str[1] = "-" THEN 0 - 1 ELSE 1

\* parseInt(value, 10)
ParseInt(str) ==
    LET from == IF HasSign(str) THEN 2 ELSE 1
        to == DigitsEnd(str, from)
    IN  IF to = from THEN NaN
        ELSE FromInt(SignOf(str) * DigitsValue(str, from, to))

\* parseFloat(value): digits, an optional fraction, an optional exponent
ParseFloat(str) ==
    LET from == IF HasSign(str) THEN 2 ELSE 1
        intEnd == DigitsEnd(str, from)
        hasDot == intEnd <= Len(str) /\ str[intEnd] = "."
        fracEnd == IF hasDot THEN DigitsEnd(str, intEnd + 1) ELSE intEnd
        nFrac == IF hasDot THEN fracEnd - intEnd - 1 ELSE 0
        mant == DigitsValue(str, from, intEnd) * 10^nFrac
                + (IF hasDot THEN DigitsValue(str, intEnd + 1, fracEnd) ELSE 0)
        hasE == fracEnd <= Len(str) /\ str[fracEnd] \in {"e", "E"}
        expSigned == hasE /\ fracEnd + 1 <= Len(str)
                          /\ str[fracEnd + 1] \in {"-", "+"}
        expFrom == IF expSigned THEN fracEnd + 2 ELSE fracEnd + 1
        expEnd == IF hasE THEN DigitsEnd(str, expFrom) ELSE expFrom
        expVal == IF hasE /\ expEnd > expFrom
                  THEN (IF expSigned /\ str[fracEnd + 1] = "-" THEN 0 - 1 ELSE 1)
                       * DigitsValue(str, expFrom, expEnd)
                  ELSE 0
    IN  IF (intEnd - from) + nFrac = 0 THEN NaN
        ELSE Norm(SignOf(str) * mant, expVal - nFrac)

----------------------------------------------------------------------------
(* The component                                                           *)

Fields == {"purchasePrice", "numberOfPurchases", "period",
           "reviewQuality", "returnProbability"}

\* the fields edited through <input type="number"> (handleInputChange, handleBlur)
NumberFields == {"purchasePrice", "numberOfPurchases"}

\* the fields edited through <input type="range">
SliderFields == {"period", "reviewQuality", "returnProbability"}

\* no message: null from validateInput, undefined in errors
NoError == "none"

\* Number.isInteger(value)
IsInteger(value) ==
    /\ ~IsNaN(value)
    /\ \/ value.e >= 0
       \/ value.e >= 0 - 7 /\ value.m % (10^(0 - value.e)) = 0

\* a validation that accepts every value
validateInputLax(field, value) == NoError

validateInput(field, value) ==
    CASE field = "purchasePrice" ->
            IF IsNaN(value) \/ Lt(value, Zero)
            THEN "purchasePrice must be a positive number" ELSE NoError
      [] field = "numberOfPurchases" ->
            IF IsNaN(value) \/ Lt(value, One) \/ ~IsInteger(value)
            THEN "numberOfPurchases must be an integer not less than 1" ELSE NoError
      [] field = "period" ->
            IF IsNaN(value) \/ Lt(value, Zero)
            THEN "period must be a non-negative number" ELSE NoError
      [] field = "reviewQuality" ->
            IF IsNaN(value) \/ Lt(value, Zero) \/ Lt(One, value)
            THEN "reviewQuality must be a number from 0 to 1" ELSE NoError
      [] field = "returnProbability" ->
            IF IsNaN(value) \/ Lt(value, Zero) \/ Lt(One, value)
            THEN "returnProbability must be a number from 0 to 1" ELSE NoError
      [] OTHER -> NoError

\* the value handleBlur stores in place of an invalid currentValue
CorrectedValue(field, currentValue) ==
    CASE field \in {"reviewQuality", "returnProbability"} ->
            MathMax(Zero, MathMin(One, currentValue))
      [] field = "numberOfPurchases" -> MathMax(One, MathFloor(currentValue))
      [] field \in {"purchasePrice", "period"} -> MathMax(Zero, currentValue)
      [] OTHER -> currentValue

\* useState<UserInputs>({...})
InitialUserInputs ==
    [purchasePrice     |-> FromInt(10000),
     numberOfPurchases |-> FromInt(7),
     period            |-> FromInt(1),
     reviewQuality     |-> Dec(8, -1),
     returnProbability |-> Dec(1, -1)]

\* the largest number of purchases typed into the form
MaxPurchases == 2

\* texts typed into the number inputs: empty, invalid and valid ones
NumberTexts(field) ==
    IF field = "purchasePrice"
    THEN {<< >>, <<"-">>, <<"-", "5">>, <<"0">>,
          <<"1", "0", "0", "0", "0", "0", "0">>, <<"1", "e", "8">>}
    ELSE {<< >>, <<"-">>, <<"0">>, <<"2", ".", "7">>}
         \cup {<<DigitChars[n + 1]>> : n \in 1..MaxPurchases}

\* positions of the range inputs
SliderTexts(field) ==
    CASE field = "period" -> {<<"0">>, <<"2", "0">>}
      [] field = "reviewQuality" -> {<<"0">>, <<"0", ".", "7", "9">>, <<"1">>}
      [] field = "returnProbability" -> {<<"0">>, <<"1">>}

\* the numeric value handleInputChange reads from a text
ParsedInput(field, text) ==
    IF field = "numberOfPurchases" THEN ParseInt(text) ELSE ParseFloat(text)

\* the values a field of userInputs takes in the component
FieldValues(field) ==
    {InitialUserInputs[field]}
    \cup (IF field \in NumberFields
          THEN {ParsedInput(field, text) : text \in
                   {tx \in NumberTexts(field) :
                       /\ tx # << >>
                       /\ validateInput(field, ParsedInput(field, tx)) = NoError}}
          ELSE {ParseFloat(text) : text \in SliderTexts(field)})

ComponentInputs ==
    [purchasePrice     : FieldValues("purchasePrice"),
     numberOfPurchases : FieldValues("numberOfPurchases"),
     period            : FieldValues("period"),
     reviewQuality     : FieldValues("reviewQuality"),
     returnProbability : FieldValues("returnProbability")]

\* inputs handed to the engine directly, valid and out of range
EngineInputs ==
    [purchasePrice     : {Dec(0 - 1, 10), Dec(0 - 1, 6), Zero, Dec(1, 6), Dec(1, 10)},
     numberOfPurchases : {Zero, One, FromInt(3)},
     period            : {Dec(0 - 15, -1), FromInt(0 - 1), Dec(25, -1)},
     reviewQuality     : {Zero, One},
     returnProbability : {Zero, One}]

\* valid inputs handed to the engine: five purchases of 1000 in period 1
ExampleInputs ==
    [purchasePrice     |-> FromInt(1000),
     numberOfPurchases |-> FromInt(5),
     period            |-> One,
     reviewQuality     |-> Dec(8, -1),
     returnProbability |-> Dec(1, -1)]

\* results = useMemo(() => ..., [userInputs, systemParams]): the value of the
\* callback and of its locals for every pair of dependencies, kept as a table
ResultsMemo ==
    [inputs \in ComponentInputs \cup EngineInputs \cup {ExampleInputs},
     params \in {DEFAULT_SYSTEM_PARAMS} |->
        ResultsRun(inputs, params)] @@ << >>

Render(inputs, params) == ResultsMemo[<<inputs, params>>]

VARIABLES
    userInputs,     \* useState<UserInputs>
    errors,         \* useState<Partial<Record<keyof UserInputs, string>>>
    systemParams,   \* useState<SystemParams>(DEFAULT_SYSTEM_PARAMS)
    results,        \* the value of the results memo in the last render
    lastRun,        \* the locals of the last execution of the results callback
    probe           \* arguments and values of a formula applied on its own

vars == <<userInputs, errors, systemParams, results, lastRun, probe>>

NoProbe == [kind |-> "none"]

\* a callback that starts the user's total from the total of the run before
RenderAfterCarrying(next, changed) ==
    IF ~changed
    THEN UNCHANGED <<results, lastRun>>
    ELSE \E r \in {Render(next, systemParams)} :
            /\ results' = [r.results EXCEPT
                               !.totalMintedUser = Add(@, results.totalMintedUser)]
            /\ lastRun' = [mintResult |-> r.mintResult, burn |-> r.burn,
                           sameInputs |-> (next = userInputs)]

\* a memo that never runs its callback again
RenderAfterStale(next, changed) == UNCHANGED <<results, lastRun>>

\* the render after a handler: when the handler called setUserInputs (changed),
\* userInputs is a new object holding next and the memo runs its callback on it,
\* otherwise the memo returns the results it holds. lastRun.sameInputs records
\* that the callback ran on values equal to those of the run before
RenderAfter(next, changed) ==
    IF ~changed
    THEN UNCHANGED <<results, lastRun>>
    ELSE \E r \in {Render(next, systemParams)} :
            /\ results' = r.results
            /\ lastRun' = [mintResult |-> r.mintResult, burn |-> r.burn,
                           sameInputs |-> (next = userInputs)]

Init ==
    /\ userInputs = InitialUserInputs
    /\ errors = [f \in Fields |-> NoError]
    /\ systemParams = DEFAULT_SYSTEM_PARAMS
    /\ \E r \in {Render(InitialUserInputs, DEFAULT_SYSTEM_PARAMS)} :
            /\ results = r.results
            /\ lastRun = [mintResult |-> r.mintResult, burn |-> r.burn,
                          sameInputs |-> FALSE]
    /\ probe = NoProbe

\* a handler that leaves the error of a field in place when it stores a value
handleInputChangeKeepingError(field, value) ==
    LET numValue == ParsedInput(field, value)
        error == validateInput(field, numValue)
        changed == value # << >> /\ error = NoError /\ ~IsNaN(numValue)
        next == IF changed THEN [userInputs EXCEPT ![field] = numValue]
                ELSE userInputs
    IN  /\ errors' = IF changed THEN errors
                     ELSE [errors EXCEPT ![field] =
                              IF value = << >> THEN NoError ELSE error]
        /\ userInputs' = next
        /\ RenderAfter(next, changed)
        /\ UNCHANGED <<systemParams, probe>>

\* handleInputChange(field, value)
handleInputChange(field, value) ==
    LET numValue == ParsedInput(field, value)
        error == validateInput(field, numValue)
        changed == value # << >> /\ error = NoError /\ ~IsNaN(numValue)
        next == IF changed THEN [userInputs EXCEPT ![field] = numValue]
                ELSE userInputs
    IN  /\ errors' = [errors EXCEPT ![field] =
                         IF value = << >> THEN NoError ELSE error]
        /\ userInputs' = next
        /\ RenderAfter(next, changed)
        /\ UNCHANGED <<systemParams, probe>>

\* a blur that clears the error of its field
handleBlurClearing(field) ==
    /\ errors' = [errors EXCEPT ![field] = NoError]
    /\ UNCHANGED <<userInputs, systemParams, results, lastRun, probe>>

\* handleBlur(field)
handleBlur(field) ==
    LET currentValue == userInputs[field]
        error == validateInput(field, currentValue)
        changed == error # NoError
        next == IF changed
                THEN [userInputs EXCEPT ![field] = CorrectedValue(field, currentValue)]
                ELSE userInputs
    IN  /\ errors' = IF changed THEN [errors EXCEPT ![field] = NoError]
                                ELSE errors
        /\ userInputs' = next
        /\ RenderAfter(next, changed)
        /\ UNCHANGED <<systemParams, probe>>

\* a slider that also stores its value as the launch period of the parameters
sliderChangeEditingParams(field, value) ==
    LET next == [userInputs EXCEPT ![field] = ParseFloat(value)]
    IN  /\ userInputs' = next
        /\ RenderAfter(next, TRUE)
        /\ systemParams' = [systemParams EXCEPT !.t_launch = ParseFloat(value)]
        /\ UNCHANGED <<errors, probe>>

\* onChange of a range input: setUserInputs((prev) => ({ ...prev, [field]: value }))
sliderChange(field, value) ==
    LET next == [userInputs EXCEPT ![field] = ParseFloat(value)]
    IN  /\ userInputs' = next
        /\ RenderAfter(next, TRUE)
        /\ UNCHANGED <<errors, systemParams, probe>>

Next ==
    \/ \E field \in NumberFields : \E value \in NumberTexts(field) :
            handleInputChange(field, value)
    \/ \E field \in NumberFields : handleBlur(field)
    \/ \E field \in SliderFields : \E value \in SliderTexts(field) :
            sliderChange(field, value)

Spec == Init /\ [][Next]_vars

----------------------------------------------------------------------------
(* The engine applied to inputs of its own: valid and out-of-range ones    *)

NoResults == [pending |-> TRUE]

InitEngine ==
    /\ userInputs \in EngineInputs \cup {ExampleInputs}
    /\ errors = [f \in Fields |-> NoError]
    /\ systemParams = DEFAULT_SYSTEM_PARAMS
    /\ results = NoResults
    /\ lastRun = NoResults
    /\ probe = NoProbe

\* the results callback runs on the inputs
Compute ==
    /\ results = NoResults
    /\ \E r \in {Render(userInputs, systemParams)} :
            /\ results' = r.results
            /\ lastRun' = [mintResult |-> r.mintResult, burn |-> r.burn,
                           sameInputs |-> FALSE]
    /\ UNCHANGED <<userInputs, errors, systemParams, probe>>

NextEngine == Compute

EngineSpec == InitEngine /\ [][NextEngine]_vars

----------------------------------------------------------------------------
(* calculateTokenPrice applied on its own to two supplies a and b          *)

Supplies ==
    {Zero, Dec(5, -1), One, FromInt(100), FromInt(10000), Dec(1000006, -2),
     Dec(1, 6)}

BondingCoefficients == {Zero, Dec(1, -4), One}

InitPrice ==
    /\ userInputs = InitialUserInputs
    /\ errors = [f \in Fields |-> NoError]
    /\ systemParams = DEFAULT_SYSTEM_PARAMS
    /\ results = NoResults
    /\ lastRun = NoResults
    /\ probe \in [kind : {"price"}, a : Supplies, b : Supplies,
                   k : BondingCoefficients, done : {FALSE}]

ApplyTokenPrice ==
    /\ probe.kind = "price"
    /\ ~probe.done
    /\ probe' = [kind |-> "price", a |-> probe.a, b |-> probe.b, k |-> probe.k,
                 done |-> TRUE,
                 priceA |-> calculateTokenPrice(probe.a,
                                [DEFAULT_SYSTEM_PARAMS EXCEPT !.k = probe.k]),
                 priceB |-> calculateTokenPrice(probe.b,
                                [DEFAULT_SYSTEM_PARAMS EXCEPT !.k = probe.k])]
    /\ UNCHANGED <<userInputs, errors, systemParams, results, lastRun>>

NextPrice == ApplyTokenPrice

PriceSpec == InitPrice /\ [][NextPrice]_vars

----------------------------------------------------------------------------
(* calculateMintedTokens applied on its own to valid inputs. reviewQuality *)
(* and returnProbability are numbers in [0, 1]: positions of the sliders   *)
(* (multiples of 0.01) and values typed in a number field, among them      *)
(* values that differ in the last digits only                              *)

MintPrices == {Dec(1, -10), FromInt(1000), Dec(1, 8)}

MintCounts == {FromInt(1), FromInt(4)}

MintQualities ==
    {Zero, Dec(5000024, -7), Dec(5000028, -7), Dec(79, -2), Dec(8, -1), One}

MintReturns == {Zero, Dec(1, -1), Dec(1000028, -7), Dec(1000032, -7), One}

MintInputs ==
    [purchasePrice : MintPrices, numberOfPurchases : MintCounts, period : {One},
     reviewQuality : MintQualities, returnProbability : MintReturns]

\* a multiple of the sliders' step 0.01
OnSliderGrid(value) == IsInteger(Mul(value, FromInt(100)))

InitMint ==
    /\ userInputs \in MintInputs
    /\ errors = [f \in Fields |-> NoError]
    /\ systemParams = DEFAULT_SYSTEM_PARAMS
    /\ results = NoResults
    /\ lastRun = NoResults
    /\ probe = [kind |-> "mint", done |-> FALSE]

ApplyMintedTokens ==
    /\ probe.kind = "mint"
    /\ ~probe.done
    /\ probe' = [kind |-> "mint", done |-> TRUE,
                 mintResult |-> calculateMintedTokens(userInputs, systemParams,
                                                      INITIAL_GLOBAL_MINTED)]
    /\ UNCHANGED <<userInputs, errors, systemParams, results, lastRun>>

NextMint == ApplyMintedTokens

MintSpec == InitMint /\ [][NextMint]_vars

----------------------------------------------------------------------------
(* The formulas applied on their own: the two percentages to a period t    *)
(* and a market burn, the quality factor to its arguments and a beta, the  *)
(* diminishing factor to two cumulative mints a and b                      *)

PercentPeriods ==
    {FromInt(0 - 50), Zero, One, FromInt(100), FromInt(101), FromInt(150)}

PercentBurns ==
    {Dec(0 - 1, 9), Zero, Dec(1, 6), Dec(16666666, 1), Dec(2, 8), Dec(1, 12)}

QualityArguments == {Zero, Dec(1, -1), Dec(5, -1), Dec(79, -2), One}

QualityCoefficients == {Zero, Dec(3, -1), Dec(25, -1)}

CumulativeMints ==
    {Zero, Dec(1, -6), Dec(2, -6), One, FromInt(10000), Dec(10000001, -3),
     Dec(1, 6)}

FormulaProbes ==
    [kind : {"percent"}, t : PercentPeriods, burnedYear : PercentBurns,
     done : {FALSE}]
    \cup [kind : {"quality"}, returnProbability : QualityArguments,
          reviewQuality : QualityArguments, beta : QualityCoefficients,
          done : {FALSE}]
    \cup [kind : {"diminishing"}, a : CumulativeMints, b : CumulativeMints,
          done : {FALSE}]

InitFormula ==
    /\ userInputs = InitialUserInputs
    /\ errors = [f \in Fields |-> NoError]
    /\ systemParams = DEFAULT_SYSTEM_PARAMS
    /\ results = NoResults
    /\ lastRun = NoResults
    /\ probe \in FormulaProbes

ApplyPercents ==
    /\ probe.kind = "percent"
    /\ ~probe.done
    /\ probe' = [kind |-> "percent", t |-> probe.t, burnedYear |-> probe.burnedYear,
                 done |-> TRUE,
                 CB_percent |-> calculateCashbackPercent(probe.t, systemParams),
                 discount_percent |->
                     calculateDiscountPercent(probe.burnedYear, systemParams)]
    /\ UNCHANGED <<userInputs, errors, systemParams, results, lastRun>>

ApplyQualityFactor ==
    /\ probe.kind = "quality"
    /\ ~probe.done
    /\ probe' = [kind |-> "quality", returnProbability |-> probe.returnProbability,
                 reviewQuality |-> probe.reviewQuality, beta |-> probe.beta,
                 done |-> TRUE,
                 QF |-> calculateQualityFactor(probe.returnProbability,
                            probe.reviewQuality,
                            [systemParams EXCEPT !.beta = probe.beta])]
    /\ UNCHANGED <<userInputs, errors, systemParams, results, lastRun>>

ApplyDiminishingFactor ==
    /\ probe.kind = "diminishing"
    /\ ~probe.done
    /\ probe' = [kind |-> "diminishing", a |-> probe.a, b |-> probe.b,
                 done |-> TRUE,
                 dfA |-> calculateDiminishingFactor(probe.a, systemParams),
                 dfB |-> calculateDiminishingFactor(probe.b, systemParams)]
    /\ UNCHANGED <<userInputs, errors, systemParams, results, lastRun>>

NextFormula == ApplyPercents \/ ApplyQualityFactor \/ ApplyDiminishingFactor

FormulaSpec == InitFormula /\ [][NextFormula]_vars

----------------------------------------------------------------------------
(* The component and its chart variant rendered on the same inputs: valid  *)
(* ones and a negative period                                              *)

ChartInputs ==
    [purchasePrice : {Zero, FromInt(1000), Dec(1, 6)},
     numberOfPurchases : {FromInt(1), FromInt(2), FromInt(5)},
     period : {Dec(0 - 15, -1), Zero, One, Dec(25, -1), FromInt(ChartLimit)},
     reviewQuality : {Zero, Dec(8, -1)},
     returnProbability : {Dec(1, -1), One}]

InitChart ==
    /\ userInputs \in ChartInputs
    /\ errors = [f \in Fields |-> NoError]
    /\ systemParams = DEFAULT_SYSTEM_PARAMS
    /\ results = NoResults
    /\ lastRun = NoResults
    /\ probe = [kind |-> "variant", done |-> FALSE]

\* both components render: `results` is the component's, probe.results and
\* probe.emissionChartData are the variant's
RenderBoth ==
    /\ probe.kind = "variant"
    /\ ~probe.done
    /\ \E r \in {ResultsRun(userInputs, systemParams)} :
            /\ results' = r.results
            /\ lastRun' = [mintResult |-> r.mintResult, burn |-> r.burn,
                           sameInputs |-> FALSE]
    /\ probe' = [kind |-> "variant", done |-> TRUE,
                 results |-> resultsOfVariant(userInputs, systemParams),
                 emissionChartData |-> emissionChartData(userInputs, systemParams)]
    /\ UNCHANGED <<userInputs, errors, systemParams>>

NextChart == RenderBoth

ChartSpec == InitChart /\ [][NextChart]_vars

----------------------------------------------------------------------------
(* Properties                                                              *)

\* start + s[1] + ... + s[n], added from left to right
SumFrom(start, s, n) ==
    LET acc[i \in 0..n] == IF i = 0 THEN start ELSE Add(acc[i - 1], s[i])
    IN  acc[n]

\* the amounts minted by the purchases of the last run, in order
MintedSeq == [i \in 1..Len(lastRun.mintResult.purchases) |->
                 lastRun.mintResult.purchases[i].mintedForPurchase]

\* C1: the mint loop runs numberOfPurchases purchases in sequence; purchase i
\* mints purchasePrice * CB%(t) * QF * DF(U_i) / Ptoken(G_i), where U_i is the sum
\* of the amounts minted by the purchases before it and G_i is the initial global
\* supply plus those amounts (both summed in the order of the purchases), and
\* totalMintedUser is the sum of all the amounts.
C1_MintSequential ==
    LET ps == lastRun.mintResult.purchases
        t == MathFloor(userInputs.period)
    IN  /\ FromInt(Len(ps)) = userInputs.numberOfPurchases
        /\ \A i \in 1..Len(ps) :
              ps[i].mintedForPurchase =
                 Div(Mul(Mul(Mul(userInputs.purchasePrice,
                                 calculateCashbackPercent(t, systemParams)),
                             calculateQualityFactor(userInputs.returnProbability,
                                 userInputs.reviewQuality, systemParams)),
                         calculateDiminishingFactor(
                             SumFrom(Zero, MintedSeq, i - 1), systemParams)),
                     calculateTokenPrice(
                         SumFrom(INITIAL_GLOBAL_MINTED, MintedSeq, i - 1),
                         systemParams))
        /\ results.totalMintedUser = SumFrom(Zero, MintedSeq, Len(ps))

\* a run of at least two purchases in which the second mints less than the first
C1_Witness ==
    LET ps == lastRun.mintResult.purchases
    IN  /\ Len(ps) >= 2
        /\ Lt(Zero, ps[2].mintedForPurchase)
        /\ Lt(ps[2].mintedForPurchase, ps[1].mintedForPurchase)
        /\ Lt(ps[1].Ptoken, ps[2].Ptoken)

\* C2: the burn loop burns purchasePrice * discount% / tokenPrice for each of the
\* numberOfPurchases purchases, every one at the token price passed in, and the
\* returned total is the sum of these equal amounts plus access_fee, added once.
C2_BurnConstantPrice ==
    LET ps == lastRun.burn.purchases
        perPurchase ==
            Div(Mul(userInputs.purchasePrice,
                    calculateDiscountPercent(lastRun.burn.burnedYear, systemParams)),
                results.tokenPrice)
    IN  /\ FromInt(Len(ps)) = userInputs.numberOfPurchases
        /\ \A i \in 1..Len(ps) :
              /\ ps[i].tokenPrice = results.tokenPrice
              /\ ps[i].burnedForPurchase = perPurchase
        /\ results.totalBurned =
              Add(SumFrom(Zero, [i \in 1..Len(ps) |-> perPurchase], Len(ps)),
                  systemParams.access_fee)

\* C2 as stated: the returned total is the product numberOfPurchases *
\* (purchasePrice * discount% / tokenPrice) plus access_fee.
C2_BurnProduct ==
    results.totalBurned =
        Add(Mul(userInputs.numberOfPurchases,
                Div(Mul(userInputs.purchasePrice,
                        calculateDiscountPercent(lastRun.burn.burnedYear,
                                                 systemParams)),
                    results.tokenPrice)),
            systemParams.access_fee)

\* a run of at least two purchases that each burn a positive amount
C2_Witness ==
    /\ Len(lastRun.burn.purchases) >= 2
    /\ Lt(Zero, lastRun.burn.purchases[2].burnedForPurchase)
    /\ Lt(systemParams.access_fee, results.totalBurned)

\* C3: the reported tokenPrice is TokenPrice(INITIAL_GLOBAL_MINTED +
\* totalMintedUser * ASSUMED_USERS), the market burn passed to the burn loop is
\* totalMintedUser * ASSUMED_BURN_RATE * ASSUMED_USERS, and totalMintedUser is the
\* total of the mint loop started from INITIAL_GLOBAL_MINTED.
C3_ResultComposition ==
    LET ps == lastRun.mintResult.purchases
    IN  /\ results.tokenPrice =
              calculateTokenPrice(
                  Add(INITIAL_GLOBAL_MINTED,
                      Mul(results.totalMintedUser, ASSUMED_USERS)), systemParams)
        /\ lastRun.burn.burnedYear =
              Mul(Mul(results.totalMintedUser, ASSUMED_BURN_RATE), ASSUMED_USERS)
        /\ results.totalMintedUser = lastRun.mintResult.totalMintedUser
        /\ Len(ps) >= 1 =>
              ps[1].Ptoken = calculateTokenPrice(INITIAL_GLOBAL_MINTED, systemParams)

\* a result with a positive mint, so that the price moved off its baseline
C3_Witness ==
    /\ Lt(Zero, results.totalMintedUser)
    /\ Lt(calculateTokenPrice(INITIAL_GLOBAL_MINTED, systemParams), results.tokenPrice)
    /\ Lt(Zero, lastRun.burn.burnedYear)

\* |a - b| is at most tol * |b|
Within(a, b, tol) ==
    LET d == Sub(a, b)
    IN  Le(IF d.m < 0 THEN Neg(d) ELSE d, Mul(tol, IF b.m < 0 THEN Neg(b) ELSE b))

\* the relative error allowed to a sum of two rounded products
SplitTolerance == Dec(2, -7)

\* C4 as stated: burnDestroyed + burnRedistributed = totalBurned exactly, with
\* burnDestroyed = 0.7 * totalBurned and burnRedistributed = 0.3 * totalBurned.
C4_BurnSplitExact ==
    ~Lt(results.totalBurned, Zero) =>
        /\ Add(results.burnDestroyed, results.burnRedistributed) = results.totalBurned
        /\ results.burnDestroyed = Mul(results.totalBurned, Dec(7, -1))
        /\ results.burnRedistributed = Mul(results.totalBurned, Dec(3, -1))

\* C4 amended: burnDestroyed = 0.7 * totalBurned and burnRedistributed =
\* 0.3 * totalBurned as computed, and their sum equals totalBurned up to the
\* rounding of the two products.
C4_BurnSplitRounded ==
    ~Lt(results.totalBurned, Zero) =>
        /\ Within(Add(results.burnDestroyed, results.burnRedistributed),
                  results.totalBurned, SplitTolerance)
        /\ results.burnDestroyed = Mul(results.totalBurned, Dec(7, -1))
        /\ results.burnRedistributed = Mul(results.totalBurned, Dec(3, -1))

\* a result whose two parts do not add up to totalBurned exactly
C4_Witness ==
    /\ Lt(Zero, results.totalBurned)
    /\ Add(results.burnDestroyed, results.burnRedistributed) # results.totalBurned

\* C5: netTokens = totalMintedUser - totalBurned, negative whenever more is burned
\* than minted.
C5_NetNotClamped ==
    /\ results.netTokens = Sub(results.totalMintedUser, results.totalBurned)
    /\ Lt(results.totalMintedUser, results.totalBurned) => Lt(results.netTokens, Zero)

\* a result that burns more than it mints
C5_Witness ==
    /\ Lt(Zero, results.totalMintedUser)
    /\ Lt(results.totalMintedUser, results.totalBurned)
    /\ Lt(results.netTokens, Zero)

\* totalMintedUser of calculateMintedTokens on each of the inputs of MintSpec
MintMemo ==
    [inputs \in MintInputs |->
        calculateMintedTokens(inputs, DEFAULT_SYSTEM_PARAMS,
                              INITIAL_GLOBAL_MINTED).totalMintedUser] @@ << >>

\* totalMintedUser on the inputs with one field replaced
TotalMintedWith(field, value) == MintMemo[[userInputs EXCEPT ![field] = value]]

\* the relative error allowed to the sums of the mint loop
MintTolerance == Dec(1, -6)

\* a is at most b, or above it by no more than the tolerance
LeRounded(a, b) == Le(Mul(a, Sub(One, MintTolerance)), b)

\* the applied inputs have both slider fields on the sliders' grid
SlidersOnGrid ==
    /\ OnSliderGrid(userInputs.reviewQuality)
    /\ OnSliderGrid(userInputs.returnProbability)

\* C6 as stated: with the other inputs fixed, every reviewQuality that is not
\* larger gives a totalMintedUser that is not larger, over the whole loop.
C6_ReviewQualityMonotone ==
    (probe.kind = "mint" /\ probe.done) =>
        \A q1 \in MintQualities :
            Le(q1, userInputs.reviewQuality) =>
                Le(TotalMintedWith("reviewQuality", q1),
                   probe.mintResult.totalMintedUser)

\* C6 amended: with the other inputs fixed, a reviewQuality that is not larger
\* gives a totalMintedUser that is not larger up to the rounding of the loop's
\* sums, and exactly so when both qualities and the return probability are
\* multiples of 0.01.
C6_ReviewQualityRounded ==
    (probe.kind = "mint" /\ probe.done) =>
        \A q1 \in MintQualities :
            Le(q1, userInputs.reviewQuality) =>
                /\ LeRounded(TotalMintedWith("reviewQuality", q1),
                             probe.mintResult.totalMintedUser)
                /\ (SlidersOnGrid /\ OnSliderGrid(q1)) =>
                       Le(TotalMintedWith("reviewQuality", q1),
                          probe.mintResult.totalMintedUser)

\* a run of several purchases that mints strictly more than with a quality on
\* the grid below it, and less than with a quality a few digits below it
C6_Witness ==
    /\ probe.kind = "mint"
    /\ probe.done
    /\ Lt(One, userInputs.numberOfPurchases)
    /\ \E q1 \in MintQualities :
          /\ Lt(q1, userInputs.reviewQuality)
          /\ OnSliderGrid(q1)
          /\ Lt(TotalMintedWith("reviewQuality", q1), probe.mintResult.totalMintedUser)
    /\ \E q1 \in MintQualities :
          /\ Lt(q1, userInputs.reviewQuality)
          /\ Lt(probe.mintResult.totalMintedUser, TotalMintedWith("reviewQuality", q1))

\* C7 as stated: with the other inputs fixed, every returnProbability that is
\* not smaller gives a totalMintedUser that is not larger.
C7_ReturnProbabilityMonotone ==
    (probe.kind = "mint" /\ probe.done) =>
        \A r2 \in MintReturns :
            Le(userInputs.returnProbability, r2) =>
                Le(TotalMintedWith("returnProbability", r2),
                   probe.mintResult.totalMintedUser)

\* C7 amended: with the other inputs fixed, a returnProbability that is not
\* smaller gives a totalMintedUser that is not larger up to the rounding of the
\* loop's sums, and exactly so when both probabilities and the review quality
\* are multiples of 0.01.
C7_ReturnProbabilityRounded ==
    (probe.kind = "mint" /\ probe.done) =>
        \A r2 \in MintReturns :
            Le(userInputs.returnProbability, r2) =>
                /\ LeRounded(TotalMintedWith("returnProbability", r2),
                             probe.mintResult.totalMintedUser)
                /\ (SlidersOnGrid /\ OnSliderGrid(r2)) =>
                       Le(TotalMintedWith("returnProbability", r2),
                          probe.mintResult.totalMintedUser)

\* a run of several purchases that mints strictly more than with a return
\* probability on the grid above it, and less than with one a few digits above it
C7_Witness ==
    /\ probe.kind = "mint"
    /\ probe.done
    /\ Lt(One, userInputs.numberOfPurchases)
    /\ \E r2 \in MintReturns :
          /\ Lt(userInputs.returnProbability, r2)
          /\ OnSliderGrid(r2)
          /\ Lt(TotalMintedWith("returnProbability", r2),
                probe.mintResult.totalMintedUser)
    /\ \E r2 \in MintReturns :
          /\ Lt(userInputs.returnProbability, r2)
          /\ Lt(probe.mintResult.totalMintedUser,
                TotalMintedWith("returnProbability", r2))

\* C8: with numberOfPurchases >= 1 and purchasePrice > 0 the diminishing factor
\* after the loop (dfLast) is at most the one before it (dfFirst).
C8_DiminishingReturns ==
    (Le(One, userInputs.numberOfPurchases) /\ Lt(Zero, userInputs.purchasePrice)) =>
        Le(lastRun.mintResult.dfLast, lastRun.mintResult.dfFirst)

\* a run whose diminishing factor fell below the first one
C8_Witness ==
    /\ Le(One, userInputs.numberOfPurchases)
    /\ Lt(Zero, userInputs.purchasePrice)
    /\ Lt(lastRun.mintResult.dfLast, lastRun.mintResult.dfFirst)

\* C9: for k >= 0 and supplies 0 <= a <= b, TokenPrice(a) <= TokenPrice(b); and
\* TokenPrice(0) with the default parameters is P0.
C9_TokenPriceMonotone ==
    /\ (probe.kind = "price" /\ probe.done /\ Le(probe.a, probe.b)) =>
            Le(probe.priceA, probe.priceB)
    /\ (probe.kind = "price" /\ probe.done /\ probe.a = Zero
            /\ probe.k = DEFAULT_SYSTEM_PARAMS.k) =>
            probe.priceA = DEFAULT_SYSTEM_PARAMS.P0

\* the price was computed for two supplies and rose strictly
C9_Witness ==
    /\ probe.kind = "price"
    /\ probe.done
    /\ probe.a = Zero
    /\ probe.k = DEFAULT_SYSTEM_PARAMS.k
    /\ Lt(probe.a, probe.b)
    /\ Lt(probe.priceA, probe.priceB)

C11_ZeroPricePurchase ==
    (userInputs.numberOfPurchases = One /\ userInputs.purchasePrice = Zero) =>
        /\ results.totalMintedUser = Zero
        /\ results.totalBurned = systemParams.access_fee

\* the loops ran once on a price of 0, with a positive cashback and discount
C11_Witness ==
    /\ userInputs.numberOfPurchases = One
    /\ userInputs.purchasePrice = Zero
    /\ Len(lastRun.mintResult.purchases) = 1
    /\ Len(lastRun.burn.purchases) = 1
    /\ Lt(Zero, lastRun.mintResult.purchases[1].CB_percent)
    /\ Lt(Zero, lastRun.burn.discount_percent)
    /\ results.totalBurned = systemParams.access_fee

\* C12: with numberOfPurchases = 0 neither loop runs an iteration,
\* totalMintedUser = 0, totalBurned = access_fee and netTokens is negative.
C12_NoPurchases ==
    (results # NoResults /\ userInputs.numberOfPurchases = Zero) =>
        /\ Len(lastRun.mintResult.purchases) = 0
        /\ Len(lastRun.burn.purchases) = 0
        /\ results.totalMintedUser = Zero
        /\ results.totalBurned = systemParams.access_fee
        /\ Lt(results.netTokens, Zero)

\* the callback ran on zero purchases of a price other than 0
C12_Witness ==
    /\ results # NoResults
    /\ userInputs.numberOfPurchases = Zero
    /\ Lt(Zero, userInputs.purchasePrice)
    /\ results.netTokens = Neg(systemParams.access_fee)

\* C13: with the default parameters and purchasePrice 1000, numberOfPurchases 5,
\* period 1, reviewQuality 0.8, returnProbability 0.1 the breakdown holds
\* CB_percent = 0.0495, QF = 1.216 and dfFirst = 1.
C13_WorkedExample ==
    (results # NoResults /\ userInputs = ExampleInputs
        /\ systemParams = DEFAULT_SYSTEM_PARAMS) =>
        /\ results.breakdown.CB_percent = Dec(495, -4)
        /\ results.breakdown.QF = Dec(1216, -3)
        /\ results.breakdown.dfFirst = One

\* the callback ran on the example and its loop made the five purchases
C13_Witness ==
    /\ results # NoResults
    /\ userInputs = ExampleInputs
    /\ Len(lastRun.mintResult.purchases) = 5
    /\ lastRun.mintResult.purchases[1].CB_percent = results.breakdown.CB_percent
    /\ Lt(results.breakdown.dfLast, results.breakdown.dfFirst)

C15_NoCarriedState ==
    LET r == Render(userInputs, systemParams)
        ps == lastRun.mintResult.purchases
    IN  /\ results = r.results
        /\ lastRun.mintResult = r.mintResult
        /\ results.breakdown.initialGlobalTotalMinted = INITIAL_GLOBAL_MINTED
        /\ Len(ps) >= 1 =>
              /\ ps[1].Ptoken = calculateTokenPrice(INITIAL_GLOBAL_MINTED, systemParams)
              /\ ps[1].DF = calculateDiminishingFactor(Zero, systemParams)

\* the callback ran after an earlier run minted more than this one does
C15_Witness ==
    /\ userInputs # InitialUserInputs
    /\ Lt(Zero, results.totalMintedUser)
    /\ Lt(results.totalMintedUser,
          Render(InitialUserInputs, systemParams).results.totalMintedUser)
    /\ Len(lastRun.mintResult.purchases) >= 2

\* C16: the cashback percentage and the discount percentage are never negative,
\* for every period t and every market burn.
C16_PercentsNotNegative ==
    (probe.kind = "percent" /\ probe.done) =>
        /\ Le(Zero, probe.CB_percent)
        /\ Le(Zero, probe.discount_percent)

\* both percentages were computed where their linear terms are negative, and
\* both were clamped to 0
C16_Witness ==
    /\ probe.kind = "percent"
    /\ probe.done
    /\ Lt(calculateCashbackPercentUnclamped(probe.t, systemParams), Zero)
    /\ Lt(Mul(systemParams.burn_cap, Div(One, systemParams.theta)), probe.burnedYear)
    /\ probe.CB_percent = Zero
    /\ probe.discount_percent = Zero

\* C17: for returnProbability and reviewQuality in [0, 1] and beta >= 0 the
\* quality factor lies in [1, 1 + beta].
C17_QualityFactorRange ==
    (probe.kind = "quality" /\ probe.done) =>
        /\ Le(One, probe.QF)
        /\ Le(probe.QF, Add(One, probe.beta))

\* the quality factor was computed strictly inside the range
C17_Witness ==
    /\ probe.kind = "quality"
    /\ probe.done
    /\ Lt(One, probe.QF)
    /\ Lt(probe.QF, Add(One, probe.beta))

ValidUserInputs ==
    /\ Le(Zero, userInputs.purchasePrice)
    /\ IsInteger(userInputs.numberOfPurchases)
    /\ Le(One, userInputs.numberOfPurchases)
    /\ Le(Zero, userInputs.period)
    /\ Le(Zero, userInputs.reviewQuality) /\ Le(userInputs.reviewQuality, One)
    /\ Le(Zero, userInputs.returnProbability)
    /\ Le(userInputs.returnProbability, One)

\* C19: systemParams equals DEFAULT_SYSTEM_PARAMS in every reachable state.
C19_ParamsImmutable == systemParams = DEFAULT_SYSTEM_PARAMS

\* input changes were made, one of them rejected, and a slider was moved
C19_Witness ==
    /\ systemParams = DEFAULT_SYSTEM_PARAMS
    /\ \E f \in NumberFields : errors[f] # NoError
    /\ userInputs.purchasePrice # InitialUserInputs.purchasePrice
    /\ userInputs.period # InitialUserInputs.period

\* C20: userInputs satisfies the constraints on the inputs in every reachable
\* state.
C20_InputsValid == ValidUserInputs

\* a negative price and a fractional count were typed and rejected
C20_Witness ==
    /\ errors["purchasePrice"] # NoError
    /\ errors["numberOfPurchases"] # NoError
    /\ userInputs # InitialUserInputs
    /\ ValidUserInputs

\* C21 as stated: from one purchase of a mint run to the next the diminishing
\* factor does not rise, the price does not fall and the minted amount does not
\* rise, and totalMintedUser <= numberOfPurchases * (mint of the first purchase).
C21_MintBound ==
    (probe.kind = "mint" /\ probe.done) =>
        LET ps == probe.mintResult.purchases
        IN  /\ \A i \in 1..(Len(ps) - 1) :
                  /\ Le(ps[i + 1].DF, ps[i].DF)
                  /\ Le(ps[i].Ptoken, ps[i + 1].Ptoken)
                  /\ Le(ps[i + 1].mintedForPurchase, ps[i].mintedForPurchase)
            /\ Len(ps) >= 1 =>
                  Le(probe.mintResult.totalMintedUser,
                     Mul(userInputs.numberOfPurchases, ps[1].mintedForPurchase))

\* C21 amended: the three sequences are monotone as stated, and totalMintedUser
\* is at most the first purchase's mint added numberOfPurchases times, which is
\* numberOfPurchases * (mint of the first purchase) up to the rounding of the
\* additions.
C21_MintBoundRounded ==
    (probe.kind = "mint" /\ probe.done) =>
        LET ps == probe.mintResult.purchases
        IN  /\ \A i \in 1..(Len(ps) - 1) :
                  /\ Le(ps[i + 1].DF, ps[i].DF)
                  /\ Le(ps[i].Ptoken, ps[i + 1].Ptoken)
                  /\ Le(ps[i + 1].mintedForPurchase, ps[i].mintedForPurchase)
            /\ Len(ps) >= 1 =>
                  /\ Le(probe.mintResult.totalMintedUser,
                        SumFrom(Zero, [i \in 1..Len(ps) |-> ps[1].mintedForPurchase],
                                Len(ps)))
                  /\ LeRounded(probe.mintResult.totalMintedUser,
                               Mul(userInputs.numberOfPurchases,
                                   ps[1].mintedForPurchase))

\* a run of several purchases whose mints fall strictly, with a total strictly
\* below numberOfPurchases times the first mint
C21_Witness ==
    /\ probe.kind = "mint"
    /\ probe.done
    /\ Len(probe.mintResult.purchases) >= 2
    /\ Lt(probe.mintResult.purchases[2].DF, probe.mintResult.purchases[1].DF)
    /\ Lt(probe.mintResult.purchases[1].Ptoken, probe.mintResult.purchases[2].Ptoken)
    /\ Lt(probe.mintResult.purchases[2].mintedForPurchase,
          probe.mintResult.purchases[1].mintedForPurchase)
    /\ Lt(probe.mintResult.totalMintedUser,
          Mul(userInputs.numberOfPurchases,
              probe.mintResult.purchases[1].mintedForPurchase))

SatisfiesConstraint(field, value) ==
    /\ ~IsNaN(value)
    /\ CASE field = "purchasePrice" -> Le(Zero, value)
         [] field = "numberOfPurchases" -> IsInteger(value) /\ Le(One, value)
         [] field = "period" -> Le(Zero, value)
         [] OTHER -> Le(Zero, value) /\ Le(value, One)

C25_BlurNoOp ==
    [][\A field \in Fields :
          /\ validateInput(field, userInputs[field]) = NoError
          /\ handleBlur(field) =>
                /\ userInputs' = userInputs
                /\ errors' = errors
                /\ results' = results]_vars

\* an error is shown for a field whose held value is valid, where a blur of the
\* field can happen
C25_Witness ==
    \E field \in NumberFields :
        /\ errors[field] # NoError
        /\ validateInput(field, userInputs[field]) = NoError
        /\ userInputs[field] # InitialUserInputs[field]

\* C26: every point of the emission chart at or after the period of the
\* purchases (t >= floor(period)) shows the minted total and the token price of
\* the results, and every earlier point shows no mint and the price of the
\* initial supply
C26_ChartMatchesResults ==
    (probe.kind = "variant" /\ probe.done) =>
        \A i \in DOMAIN probe.emissionChartData :
            \E point \in {probe.emissionChartData[i]} :
                IF Le(MathFloor(userInputs.period), point.period)
                THEN /\ point.minted = probe.results.totalMintedUser
                     /\ point.price = probe.results.tokenPrice
                ELSE /\ point.minted = Zero
                     /\ point.price =
                            calculateTokenPrice(INITIAL_GLOBAL_MINTED, systemParams)

\* the six aggregates both components return
Aggregates ==
    {"totalMintedUser", "tokenPrice", "totalBurned", "burnDestroyed",
     "burnRedistributed", "netTokens"}

\* C27: on the same inputs the component and its chart variant return the same
\* totalMintedUser, tokenPrice, totalBurned, burnDestroyed, burnRedistributed
\* and netTokens
C27_VariantsAgree ==
    (probe.kind = "variant" /\ probe.done) =>
        /\ DOMAIN probe.results = Aggregates
        /\ \A name \in Aggregates : probe.results[name] = results[name]

\* both have rendered several purchases with a positive mint
C27_Witness ==
    /\ probe.kind = "variant"
    /\ probe.done
    /\ Lt(One, userInputs.numberOfPurchases)
    /\ Lt(Zero, results.totalMintedUser)
    /\ Lt(Zero, probe.results.totalMintedUser)

\* |a|
Magnitude(a) == IF a.m < 0 THEN Neg(a) ELSE a

\* the parts of the breakdown that are copies of values the run used
BreakdownCopies ==
    LET b == results.breakdown
    IN  /\ b.accessFeeTokens = systemParams.access_fee
        /\ b.discount_percent = lastRun.burn.discount_percent
        /\ \A i \in 1..Len(lastRun.mintResult.purchases) :
              /\ lastRun.mintResult.purchases[i].CB_percent = b.CB_percent
              /\ lastRun.mintResult.purchases[i].QFi = b.QF
        /\ b.capUsage = Div(results.totalMintedUser, systemParams.user_cap)
        /\ b.netValueRub = Mul(results.netTokens, results.tokenPrice)

====
